---- MODULE Spec2Model ----
(***************************************************************************)
(* Redirect-chain resolution of npm-url-utilities (src/src/index.ts):      *)
(* getLocationHeader (one probe: HEAD with a 3000 ms abort timer, then a   *)
(* GET fallback), getRedirectChain (the loop over the probes) and the      *)
(* process-wide set noHeadRequestDomains.                                  *)
(*                                                                         *)
(* Strings are sequences of tokens.  A token is a run of characters that   *)
(* holds no URL delimiter: "/", "\\" and ":" are the delimiters, ".." is   *)
(* the dot segment, "https" and "http" are the schemes fetch can request,  *)
(* every other token is host or path text.  A URL is the record            *)
(* [scheme, host, path] that the platform's URL parser builds; path is the *)
(* list of its segments, so <<"a", "b">> is the pathname /a/b and <<"">>   *)
(* is the pathname /.  Tokens are maximal runs: no two text tokens are     *)
(* adjacent in a string.                                                   *)
(***************************************************************************)
EXTENDS Integers, Sequences, FiniteSets, TLC

VARIABLES
    noHeadRequestDomains,   \* the exported Set<string>
    startUrl,               \* the url argument of getRedirectChain
    maxChainLength,         \* the maxChainLength argument
    pc,                     \* where the getRedirectChain call stands
    url,                    \* the local url of getRedirectChain (the cursor)
    chain,                  \* the local chain
    result,                 \* what getRedirectChain returned
    probes,                 \* one record per getLocationHeader call, in order
    requests,               \* every fetch issued, in order
    timers,                 \* probes whose setTimeout callback is still pending
    valid,                  \* the last isValidURL call and what it returned
    js,                     \* the same call made to the build src/index.js
    second,                 \* a second getRedirectChain call, interleaved
    server                  \* how the server of a run deals with a request

vars == <<noHeadRequestDomains, startUrl, maxChainLength, pc, url, chain,
          result, probes, requests, timers, valid, js, second, server>>

---------------------------------------------------------------------------
(* Bounds *)

\* Largest maxChainLength argument tried.
MaxChainArg == 2

\* Largest maxChainLength argument tried for the lookup in the set.
LookupChainArg == 1

\* The setTimeout delay of the HEAD probe, in milliseconds.
HeadTimeoutMs == 3000

---------------------------------------------------------------------------
(* The platform's URL parser, as far as new URL(...) is used *)

SpecialSchemes == {"https", "http"}

Slashes == {"/", "\\"}

Delimiters == {"/", "\\", ":"}

\* Text that can be a scheme: it starts with a letter and holds no delimiter.
IsSchemeText(t) == t \notin Delimiters /\ t # ".." /\ t # ""

\* The parser lower-cases the host of a special-scheme URL.
ToLowerCase(t) ==
    CASE t = "MEGA.NZ" -> "mega.nz"
      [] t = "WWW.MEGA.NZ" -> "www.mega.nz"
      [] t = "Example.COM" -> "example.com"
      [] OTHER -> t

NoURL == [scheme |-> "", host |-> "", path |-> <<>>]

ParseFailure == [ok |-> FALSE, url |-> NoURL]

ParseSuccess(u) == [ok |-> TRUE, url |-> u]

\* s without its first n tokens.
Drop(s, n) == IF n >= Len(s) THEN <<>> ELSE SubSeq(s, n + 1, Len(s))

\* The number of leading slashes (either kind) of s.
RECURSIVE LeadingSlashes(_)
LeadingSlashes(s) ==
    IF s # <<>> /\ s[1] \in Slashes THEN 1 + LeadingSlashes(Tail(s)) ELSE 0

\* Path state of the parser on a special-scheme URL: s is what follows the
\* host, path the segments so far, seg the segment being read.  A slash of
\* either kind ends a segment; ".." drops the last segment kept.
RECURSIVE PathState(_, _, _)
PathState(s, path, seg) ==
    LET closed == IF seg = ".."
                  THEN IF path = <<>> THEN <<>> ELSE SubSeq(path, 1, Len(path) - 1)
                  ELSE Append(path, seg)
    IN  IF s = <<>>
        THEN IF seg = ".." THEN Append(closed, "") ELSE closed
        ELSE IF s[1] \in Slashes
             THEN PathState(Tail(s), closed, "")
             ELSE PathState(Tail(s), path, s[1])

\* The path of a special-scheme URL from the text after its host.
ParsePath(s) ==
    IF s = <<>> THEN <<"">> ELSE PathState(Tail(s), <<>>, "")

\* Authority and path of a special-scheme URL: s starts at the host.  A
\* ":" after the host opens the port, which may be empty; the tokens hold
\* no digits, so any other port is invalid.
ParseAuthority(scheme, s) ==
    IF s = <<>> \/ s[1] \in Delimiters \/ s[1] = ".."
    THEN ParseFailure
    ELSE LET afterHost == Tail(s)
             afterPort == IF afterHost # <<>> /\ afterHost[1] = ":"
                          THEN Tail(afterHost) ELSE afterHost
         IN  IF afterPort # <<>> /\ afterPort[1] \notin Slashes
             THEN ParseFailure
             ELSE ParseSuccess([scheme |-> scheme,
                                host   |-> ToLowerCase(s[1]),
                                path   |-> ParsePath(afterPort)])

HasScheme(s) == Len(s) >= 2 /\ IsSchemeText(s[1]) /\ s[2] = ":"

\* new URL(s): s must carry its own scheme.  After a special scheme the
\* parser skips every slash and reads the host; any other scheme keeps the
\* rest as an opaque path.
ParseAbsolute(s) ==
    IF HasScheme(s)
    THEN IF s[1] \in SpecialSchemes
         THEN LET rest == Drop(s, 2)
              IN  ParseAuthority(s[1], Drop(rest, LeadingSlashes(rest)))
         ELSE ParseSuccess([scheme |-> s[1], host |-> "", path |-> Drop(s, 2)])
    ELSE ParseFailure

\* The relative states of the parser: s carries no scheme and base is a
\* special-scheme URL.  Two leading slashes open an authority, one leading
\* slash replaces the path, anything else replaces the last segment.
RelativeState(s, base) ==
    IF s = <<>>
    THEN ParseSuccess(base)
    ELSE IF LeadingSlashes(s) >= 2
         THEN ParseAuthority(base.scheme, Drop(s, LeadingSlashes(s)))
         ELSE IF LeadingSlashes(s) = 1
              THEN ParseSuccess([scheme |-> base.scheme,
                                 host   |-> base.host,
                                 path   |-> ParsePath(s)])
              ELSE ParseSuccess([scheme |-> base.scheme,
                                 host   |-> base.host,
                                 path   |-> PathState(Tail(s),
                                              SubSeq(base.path, 1, Len(base.path) - 1),
                                              s[1])])

\* A resolver that takes every scheme-less reference, "/c" too, as relative
\* to the directory of the base.
ParseRelativeToDirectory(s, base) ==
    IF HasScheme(s)
    THEN ParseAbsolute(s)
    ELSE ParseSuccess([scheme |-> base.scheme,
                       host   |-> base.host,
                       path   |-> PathState(Drop(s, LeadingSlashes(s)),
                                    SubSeq(base.path, 1, Len(base.path) - 1), "")])

\* new URL(s, base).  A reference that repeats the special scheme of the
\* base without "//" after it is relative as well.
ParseRelative(s, base) ==
    LET rest == Drop(s, 2)
        sameScheme == /\ HasScheme(s)
                      /\ s[1] \in SpecialSchemes
                      /\ s[1] = base.scheme
                      /\ ~(Len(rest) >= 2 /\ rest[1] = "/" /\ rest[2] = "/")
    IN  IF HasScheme(s) /\ ~sameScheme
        THEN ParseAbsolute(s)
        ELSE IF base.scheme \notin SpecialSchemes
             THEN ParseFailure
             ELSE RelativeState(IF sameScheme THEN rest ELSE s, base)

\* The href of a special-scheme URL.
RECURSIVE SerializePath(_)
SerializePath(path) ==
    IF path = <<>> THEN <<>> ELSE <<"/", path[1]>> \o SerializePath(Tail(path))

Serialize(u) == <<u.scheme, ":", "/", "/", u.host>> \o SerializePath(u.path)

---------------------------------------------------------------------------
(* Inputs: URLs, responses, hostnames *)

ExampleAB == [scheme |-> "https", host |-> "example.com", path |-> <<"a", "b">>]

MegaX == [scheme |-> "http", host |-> "mega.nz", path |-> <<"x">>]

\* The url arguments tried.
StartUrls == {ExampleAB, MegaX}

WwwMegaX == [scheme |-> "https", host |-> "www.mega.nz", path |-> <<"x">>]

\* The url arguments tried for the lookup in the set: a listed hostname, a
\* subdomain of a listed hostname, and an unrelated hostname.
LookupUrls == {MegaX, WwwMegaX, ExampleAB}

\* The initial content of the set.
SeedDomains == {"mega.co.nz", "mega.io", "mega.nz"}

\* What the set holds when a lookup call starts: the initial content, with
\* or without an upper-case spelling a caller added.
LookupTables == {SeedDomains, SeedDomains \cup {"WWW.MEGA.NZ"}}

\* headers.get("Location"): null when the response has no such header.
NoHeader == [has |-> FALSE, val |-> <<>>]

Header(s) == [has |-> TRUE, val |-> s]

\* The Location values a server may send.
LocationValues ==
    { <<"/", "c">>,                                          \* /c
      <<"https", ":", "/", "/", "example.com", "/", "a", "/", "b">>,
      <<"https", ":", "/", "/", "MEGA.NZ", "/", "x">>,
      <<"/", "/", "other.example", "/", "x">>,               \* //other.example/x
      <<"/", "\\", "other.example">>,                        \* /\other.example
      <<"/", "a", "/", "..", "/", "c">>,                     \* /a/../c
      <<"c">>,                                               \* c
      <<"mailto", ":", "a">> }

\* The statuses a server may answer with.
Statuses == {200, 302, 405}

\* let response; (undefined until a fetch resolves)
Undefined == [defined |-> FALSE, status |-> 0, location |-> NoHeader]

Response(status, location) ==
    [defined |-> TRUE, status |-> status, location |-> location]

\* What a server may answer to a request.
Responses ==
    { Response(st, loc) : st \in Statuses,
                          loc \in {NoHeader} \cup { Header(v) : v \in LocationValues } }

\* The hostnames a caller of the module adds to or deletes from the set.
CallerHosts == {"example.com"}

\* The strings isValidURL is asked about.
Candidates ==
    { <<"not a url">>,
      <<"https", ":", "/", "/", "example.com">>,
      <<"/", "c">> }

\* No isValidURL call has been made.
NotAsked == [asked |-> FALSE, arg |-> <<>>, ret |-> FALSE]

\* A server of a run with fixed behaviour: what becomes of a HEAD request
\* for /a/b (it responds, it rejects, or it is never answered), what
\* becomes of any GET request, and the Location value /a/b responds with.
\* A HEAD request for any other path is answered, and no other path
\* redirects.
Servers ==
    [head : {"responds", "throws", "hangs"},
     get : {"responds", "throws"},
     location : { <<"/", "c">>, <<"https", ":", "/", "/", "MEGA.NZ", "/", "x">> }]

\* A server that answers every request in time.
PromptServer == [head |-> "responds", get |-> "responds", location |-> <<"/", "c">>]

\* What becomes of a HEAD request for u on the server of the run.
HeadOutcome(u) == IF u.path = <<"a", "b">> THEN server.head ELSE "responds"

\* What becomes of a GET request for u on the server of the run.
GetOutcome(u) == server.get

\* The response of the server of the run to a request for u that it
\* answers: /a/b redirects to the server's Location value, /x redirects to
\* https://example.com/a/b, any other path does not redirect.
ResponseTo(u) ==
    CASE u.path = <<"a", "b">> -> Response(200, Header(server.location))
      [] u.path = <<"x">> ->
            Response(200, Header(<<"https", ":", "/", "/", "example.com", "/", "a", "/", "b">>))
      [] OTHER -> Response(200, NoHeader)

---------------------------------------------------------------------------
(* The code, as functions of the state of one getRedirectChain call *)

\* The HEAD request is tried whatever the set holds.
TryHeadRequestAlways(hostname, domains) == TRUE

\* A lookup that folds the case of the members before it compares.
TryHeadRequestFolded(hostname, domains) ==
    hostname \notin { ToLowerCase(m) : m \in domains }

\* !noHeadRequestDomains.has(url.hostname)
TryHeadRequest(hostname, domains) == hostname \notin domains

\* response === null: false of undefined and of every response
ResponseStrictlyNull(response) == FALSE

\* The GET request is issued whatever the HEAD attempt left.
ResponseIgnored(response) == TRUE

\* response == undefined
ResponseUndefined(response) == ~response.defined

\* response.ok: the status is in the range 200-299
IsOk(response) == response.status >= 200 /\ response.status <= 299

\* locationHeader !== undefined: true of null as well
StrictlyNotUndefined(value) == TRUE

\* locationHeader != undefined (null compares equal to undefined)
HasLocation(value) == value.has

\* locationHeader.startsWith("/")
StartsWithSlash(s) == s # <<>> /\ s[1] = "/"

\* chain.length <= maxChainLength
LoopGuardInclusive(length, max) == length <= max

\* chain.length < maxChainLength
LoopGuard(length, max) == length < max

\* chain.unshift(url) in place of chain.push(url)
Unshift(c, u) == <<u>> \o c

\* chain.push(url)
Push(c, u) == Append(c, u)

Pending == [tag |-> "pending", chain |-> <<>>]

Null == [tag |-> "null", chain |-> <<>>]

Chain(c) == [tag |-> "chain", chain |-> c]

\* The state of the getRedirectChain call: call numbers it among the calls
\* of a run and start is its url argument.
State == [call |-> 1, start |-> startUrl,
          pc |-> pc, url |-> url, chain |-> chain, result |-> result,
          probes |-> probes, requests |-> requests, timers |-> timers]

\* setTimeout(() => controller.abort(), 3000) of probe n of call s.
Timer(s, n) == [call |-> s.call, probe |-> n, delay |-> HeadTimeoutMs]

\* The record of the probe under way.
Probe(s) == s.probes[Len(s.probes)]

WithProbe(s, p) == [s EXCEPT !.probes[Len(s.probes)] = p]

\* return chain / return null of getRedirectChain
Return(s, r) == [s EXCEPT !.pc = "done", !.result = r]

\* fetch(url, {method: "GET", redirect: "manual"})
IssueGet(s) ==
    [WithProbe(s, [Probe(s) EXCEPT !.get = "pending"])
       EXCEPT !.pc = "get",
              !.requests = Append(@, [method |-> "GET", url |-> s.url,
                                      probe |-> Len(s.probes)])]

\* A catch block that leaves the loop and returns the chain.
CatchErrorBreaks(s) == Return(s, Chain(s.chain))

\* catch (error) { return null; } of getRedirectChain
CatchError(s) == Return(s, Null)

\* new URL(locationHeader, url) for every value.
ResolveAlwaysAgainstBase(s, base) == ParseRelative(s, base)

\* The next url: new URL(locationHeader, url) for a value that starts with
\* "/", new URL(locationHeader) for any other.
ResolveLocation(s, base) ==
    IF StartsWithSlash(s) THEN ParseRelative(s, base) ELSE ParseAbsolute(s)

RECURSIVE LoopHead(_, _)

\* getRedirectChain from the value getLocationHeader returned: the next
\* url and the loop again, null when new URL throws, the chain when there
\* is no Location value.
AfterProbe(s, value) ==
    IF HasLocation(value)
    THEN LET next == ResolveLocation(value.val, s.url)
         IN  IF next.ok THEN LoopHead(s, next.url) ELSE CatchError(s)
    ELSE Return(s, Chain(s.chain))

\* getLocationHeader returns value to getRedirectChain.
ReturnFromProbe(s, value) ==
    AfterProbe(WithProbe(s, [Probe(s) EXCEPT !.returned = TRUE, !.value = value]),
               value)

\* getLocationHeader from "if (response == undefined)" on, for the response
\* the HEAD attempt left: the GET request, or the return of the Location
\* value of an ok response and of null for any other.
AfterHead(s, response) ==
    IF ResponseUndefined(response)
    THEN IssueGet(s)
    ELSE ReturnFromProbe(WithProbe(s, [Probe(s) EXCEPT !.response = response]),
                         IF ~IsOk(response) THEN NoHeader ELSE response.location)

\* getLocationHeader once the GET has resolved with response.
AfterGet(s, response) ==
    ReturnFromProbe(WithProbe(s, [Probe(s) EXCEPT !.response = response]),
                    IF ~IsOk(response) THEN NoHeader ELSE response.location)

\* getLocationHeader of src/index.js from "if (response == undefined)" on:
\* the GET request, or the return of the Location value of the response,
\* whatever its status.
AfterHeadJS(s, response) ==
    IF ResponseUndefined(response)
    THEN IssueGet(s)
    ELSE ReturnFromProbe(WithProbe(s, [Probe(s) EXCEPT !.response = response]),
                         response.location)

\* getLocationHeader of src/index.js once the GET has resolved with
\* response.
AfterGetJS(s, response) ==
    ReturnFromProbe(WithProbe(s, [Probe(s) EXCEPT !.response = response]),
                    response.location)

\* The GET request of src/index.js rejects: it is awaited outside any try
\* block, so getLocationHeader rejects and the catch block of
\* getRedirectChain returns null.
GetRejectsJS(s) == CatchError(s)

\* A getLocationHeader that does not await the HEAD request before it
\* issues the GET request.
EnterProbeRacing(s) ==
    LET n == Len(s.probes) + 1
        p == [url |-> s.url,
              listed |-> s.url.host \in noHeadRequestDomains,
              tryHeadRequest |-> TRUE,
              head |-> "pending", get |-> "pending", response |-> Undefined,
              returned |-> FALSE, value |-> NoHeader]
    IN  [s EXCEPT !.pc = "head",
                  !.probes = Append(@, p),
                  !.timers = @ \cup {Timer(s, n)},
                  !.requests = @ \o <<[method |-> "HEAD", url |-> s.url, probe |-> n],
                                      [method |-> "GET", url |-> s.url, probe |-> n]>>]

\* getLocationHeader(url) up to its first await: the HEAD request with its
\* abort timer, or no HEAD attempt at all for a listed hostname.
EnterProbe(s) ==
    LET n == Len(s.probes) + 1
        tryHeadRequest == TryHeadRequest(s.url.host, noHeadRequestDomains)
        p == [url |-> s.url,
              listed |-> s.url.host \in noHeadRequestDomains,
              tryHeadRequest |-> tryHeadRequest,
              head |-> IF tryHeadRequest THEN "pending" ELSE "none",
              get |-> "none", response |-> Undefined,
              returned |-> FALSE, value |-> NoHeader]
        s1 == [s EXCEPT !.probes = Append(@, p)]
    IN  IF tryHeadRequest
        THEN [s1 EXCEPT !.pc = "head",
                        !.timers = @ \cup {Timer(s, n)},
                        !.requests = Append(@, [method |-> "HEAD", url |-> s.url,
                                                probe |-> n])]
        ELSE AfterHead(s1, Undefined)

\* The head of the while loop, with url as the cursor.
LoopHead(s, u) ==
    IF LoopGuard(Len(s.chain), maxChainLength)
    THEN EnterProbe([s EXCEPT !.url = u, !.chain = Push(@, u)])
    ELSE Return([s EXCEPT !.url = u], Chain(s.chain))

Set(s) ==
    /\ pc' = s.pc
    /\ url' = s.url
    /\ chain' = s.chain
    /\ result' = s.result
    /\ probes' = s.probes
    /\ requests' = s.requests
    /\ timers' = s.timers

---------------------------------------------------------------------------
(* The state machine *)

Init ==
    /\ noHeadRequestDomains = SeedDomains
    /\ startUrl \in StartUrls
    /\ maxChainLength \in 0..MaxChainArg
    /\ pc = "idle"
    /\ url = startUrl
    /\ chain = <<>>
    /\ result = Pending
    /\ probes = <<>>
    /\ requests = <<>>
    /\ timers = {}
    /\ valid = NotAsked
    /\ js = State
    /\ second = [State EXCEPT !.call = 2]
    /\ server = PromptServer

\* getRedirectChain(startUrl, maxChainLength) is called and runs to its
\* first await.
Call ==
    /\ pc = "idle"
    /\ Set(LoopHead(State, startUrl))
    /\ UNCHANGED <<noHeadRequestDomains, startUrl, maxChainLength>>
    /\ UNCHANGED <<valid, js, second, server>>

\* fetch only requests http(s) URLs; for any other it rejects.
Answers(u) == IF u.scheme \in SpecialSchemes THEN Responses ELSE {}

\* The HEAD request resolves with a response.
HeadResponds ==
    /\ pc = "head"
    /\ \E r \in Answers(url) :
          Set(AfterHead(WithProbe(State, [Probe(State) EXCEPT !.head = "response"]), r))
    /\ UNCHANGED <<noHeadRequestDomains, startUrl, maxChainLength>>
    /\ UNCHANGED <<valid, js, second, server>>

\* A catch block of the HEAD request that puts the hostname in the set.
HeadThrowsLearning ==
    /\ pc = "head"
    /\ Set(AfterHead(WithProbe(State, [Probe(State) EXCEPT !.head = "threw"]), Undefined))
    /\ noHeadRequestDomains' = noHeadRequestDomains \cup {url.host}
    /\ UNCHANGED <<startUrl, maxChainLength, valid, js, second, server>>

\* The HEAD request rejects for a transport reason; the catch block leaves
\* response undefined.
HeadThrows ==
    /\ pc = "head"
    /\ Set(AfterHead(WithProbe(State, [Probe(State) EXCEPT !.head = "threw"]), Undefined))
    /\ UNCHANGED <<noHeadRequestDomains, startUrl, maxChainLength>>
    /\ UNCHANGED <<valid, js, second, server>>

\* One module-wide controller: an abort reaches whatever HEAD request is
\* in flight.
SignalShared(t, s) == s.pc = "head"

\* A fetch that is not given the controller's signal: no abort reaches it.
SignalNotPassed(t, s) == FALSE

\* signal: controller.signal on the HEAD request: the abort of timer t
\* reaches the fetch of call state s when that fetch is the HEAD request
\* of the probe that set the timer and is still in flight.
SignalAborts(t, s) ==
    s.pc = "head" /\ t.call = s.call /\ t.probe = Len(s.probes)

\* What the callback of timer t does to call state s: the timer is no
\* longer pending, and the HEAD request that its signal reaches rejects.
TimerRuns(t, s) ==
    LET s1 == [s EXCEPT !.timers = @ \ {t}]
    IN  IF SignalAborts(t, s)
        THEN AfterHead(WithProbe(s1, [Probe(s1) EXCEPT !.head = "aborted"]), Undefined)
        ELSE s1

\* The setTimeout callback of probe n runs controller.abort(): a HEAD
\* request still in flight on that signal rejects; otherwise nothing
\* listens to the signal any more.
TimerFires ==
    /\ \E t \in timers : Set(TimerRuns(t, State))
    /\ UNCHANGED <<noHeadRequestDomains, startUrl, maxChainLength>>
    /\ UNCHANGED <<valid, js, second, server>>

\* The GET request resolves with a response.
GetResponds ==
    /\ pc = "get"
    /\ \E r \in Answers(url) :
          Set(AfterGet(WithProbe(State, [Probe(State) EXCEPT !.get = "response"]), r))
    /\ UNCHANGED <<noHeadRequestDomains, startUrl, maxChainLength>>
    /\ UNCHANGED <<valid, js, second, server>>

\* The GET request rejects: getLocationHeader returns null.
GetThrows ==
    /\ pc = "get"
    /\ Set(ReturnFromProbe(WithProbe(State, [Probe(State) EXCEPT !.get = "threw"]),
                           NoHeader))
    /\ UNCHANGED <<noHeadRequestDomains, startUrl, maxChainLength>>
    /\ UNCHANGED <<valid, js, second, server>>

\* A caller of the module adds a hostname to the exported set.
AddDomain ==
    /\ \E h \in CallerHosts \ noHeadRequestDomains :
          noHeadRequestDomains' = noHeadRequestDomains \cup {h}
    /\ UNCHANGED <<startUrl, maxChainLength, pc, url, chain, result, probes,
                   requests, timers, valid, js, second, server>>

\* A caller of the module deletes a hostname from the exported set.
DeleteDomain ==
    /\ \E h \in CallerHosts \cap noHeadRequestDomains :
          noHeadRequestDomains' = noHeadRequestDomains \ {h}
    /\ UNCHANGED <<startUrl, maxChainLength, pc, url, chain, result, probes,
                   requests, timers, valid, js, second, server>>

Next ==
    \/ Call
    \/ HeadResponds
    \/ HeadThrows
    \/ TimerFires
    \/ GetResponds
    \/ GetThrows
    \/ AddDomain
    \/ DeleteDomain

Spec == Init /\ [][Next]_vars

\* isValidURL(s): whether new URL(s) throws.
IsValidURL ==
    /\ \E s \in Candidates :
          valid' = [asked |-> TRUE, arg |-> s, ret |-> ParseAbsolute(s).ok]
    /\ UNCHANGED <<noHeadRequestDomains, startUrl, maxChainLength, pc, url,
                   chain, result, probes, requests, timers, js, second, server>>

\* The steps of the module alone: no caller changes the exported set.
NextCall ==
    \/ Call
    \/ HeadResponds
    \/ HeadThrows
    \/ TimerFires
    \/ GetResponds
    \/ GetThrows

\* The call is made, the event loop runs every timer that is due, and
\* every GET request settles. Nothing is assumed of a HEAD request: it may
\* never respond.
FairSpec ==
    /\ Init
    /\ [][NextCall]_vars
    /\ WF_vars(Call)
    /\ WF_vars(TimerFires)
    /\ WF_vars(GetResponds \/ GetThrows)

\* The call to src/src/index.ts and the call to src/index.js stand at the
\* same await of the same probe.
InSync == js.pc = pc /\ js.url = url /\ Len(js.probes) = Len(probes)

\* The same getRedirectChain call is made to both builds.
PairCall ==
    /\ pc = "idle" /\ js.pc = "idle"
    /\ Set(LoopHead(State, startUrl))
    /\ js' = LoopHead(js, startUrl)
    /\ UNCHANGED <<noHeadRequestDomains, startUrl, maxChainLength>>
    /\ UNCHANGED <<valid, second, server>>

\* The HEAD requests of both builds resolve with the same response.
PairHeadResponds ==
    /\ InSync /\ pc = "head"
    /\ \E r \in Answers(url) :
          /\ Set(AfterHead(WithProbe(State, [Probe(State) EXCEPT !.head = "response"]), r))
          /\ js' = AfterHeadJS(WithProbe(js, [Probe(js) EXCEPT !.head = "response"]), r)
    /\ UNCHANGED <<noHeadRequestDomains, startUrl, maxChainLength>>
    /\ UNCHANGED <<valid, second, server>>

\* The HEAD requests of both builds reject.
PairHeadThrows ==
    /\ InSync /\ pc = "head"
    /\ Set(AfterHead(WithProbe(State, [Probe(State) EXCEPT !.head = "threw"]), Undefined))
    /\ js' = AfterHeadJS(WithProbe(js, [Probe(js) EXCEPT !.head = "threw"]), Undefined)
    /\ UNCHANGED <<noHeadRequestDomains, startUrl, maxChainLength>>
    /\ UNCHANGED <<valid, second, server>>

\* The abort timer of the same probe runs in both builds.
PairTimerFires ==
    /\ \E t \in timers \cup js.timers :
          LET s == [State EXCEPT !.timers = @ \ {t}]
              j == [js EXCEPT !.timers = @ \ {t}]
          IN  /\ IF t \in timers /\ SignalAborts(t, State)
                 THEN Set(AfterHead(WithProbe(s, [Probe(s) EXCEPT !.head = "aborted"]),
                                    Undefined))
                 ELSE Set(s)
              /\ js' = IF t \in js.timers /\ SignalAborts(t, js)
                        THEN AfterHeadJS(WithProbe(j, [Probe(j) EXCEPT !.head = "aborted"]),
                                         Undefined)
                        ELSE j
    /\ UNCHANGED <<noHeadRequestDomains, startUrl, maxChainLength>>
    /\ UNCHANGED <<valid, second, server>>

\* The GET requests of both builds resolve with the same response.
PairGetResponds ==
    /\ InSync /\ pc = "get"
    /\ \E r \in Answers(url) :
          /\ Set(AfterGet(WithProbe(State, [Probe(State) EXCEPT !.get = "response"]), r))
          /\ js' = AfterGetJS(WithProbe(js, [Probe(js) EXCEPT !.get = "response"]), r)
    /\ UNCHANGED <<noHeadRequestDomains, startUrl, maxChainLength>>
    /\ UNCHANGED <<valid, second, server>>

\* The GET requests of both builds reject.
PairGetThrows ==
    /\ InSync /\ pc = "get"
    /\ Set(ReturnFromProbe(WithProbe(State, [Probe(State) EXCEPT !.get = "threw"]),
                           NoHeader))
    /\ js' = GetRejectsJS(WithProbe(js, [Probe(js) EXCEPT !.get = "threw"]))
    /\ UNCHANGED <<noHeadRequestDomains, startUrl, maxChainLength>>
    /\ UNCHANGED <<valid, second, server>>

NextPair ==
    \/ PairCall
    \/ PairHeadResponds
    \/ PairHeadThrows
    \/ PairTimerFires
    \/ PairGetResponds
    \/ PairGetThrows

\* The same call made to both builds, against the same server.
SpecPair == Init /\ [][NextPair]_vars

\* The HEAD request in flight of call state s settles as the server of the
\* run has it: with the response, or with a rejection.
HeadSettles(s) ==
    IF HeadOutcome(s.url) = "responds"
    THEN AfterHead(WithProbe(s, [Probe(s) EXCEPT !.head = "response"]), ResponseTo(s.url))
    ELSE AfterHead(WithProbe(s, [Probe(s) EXCEPT !.head = "threw"]), Undefined)

\* The GET request in flight of call state s settles as the server of the
\* run has it.
GetSettles(s) ==
    IF GetOutcome(s.url) = "responds"
    THEN AfterGet(WithProbe(s, [Probe(s) EXCEPT !.get = "response"]), ResponseTo(s.url))
    ELSE ReturnFromProbe(WithProbe(s, [Probe(s) EXCEPT !.get = "threw"]), NoHeader)

\* The two calls of a run, by their number.
Calls == <<State, second>>

\* Call c goes to state s; the other call stays where it is.
Step(c, s) ==
    IF c = 1
    THEN Set(s) /\ second' = second
    ELSE second' = s /\ UNCHANGED <<pc, url, chain, result, probes, requests, timers>>

\* One of the two getRedirectChain calls is made and runs to its first
\* await.
TwoCall ==
    /\ \E c \in 1..2 :
          /\ Calls[c].pc = "idle"
          /\ Step(c, LoopHead(Calls[c], Calls[c].start))
    /\ UNCHANGED <<noHeadRequestDomains, startUrl, maxChainLength, valid, js, server>>

\* The HEAD request of one of the calls settles.
TwoHeadSettles ==
    /\ \E c \in 1..2 :
          /\ Calls[c].pc = "head"
          /\ HeadOutcome(Calls[c].url) # "hangs"
          /\ Step(c, HeadSettles(Calls[c]))
    /\ UNCHANGED <<noHeadRequestDomains, startUrl, maxChainLength, valid, js, server>>

\* The GET request of one of the calls settles.
TwoGetSettles ==
    /\ \E c \in 1..2 :
          /\ Calls[c].pc = "get"
          /\ Step(c, GetSettles(Calls[c]))
    /\ UNCHANGED <<noHeadRequestDomains, startUrl, maxChainLength, valid, js, server>>

\* Timer t has run its 3000 ms: the HEAD request of its probe has settled,
\* or it is one the server never answers.
Due(t) ==
    LET p == Calls[t.call].probes[t.probe]
    IN  p.head # "pending" \/ HeadOutcome(p.url) = "hangs"

\* The callback of a pending timer of either call runs; every call whose
\* fetch listens to its signal sees the abort.
TwoTimerFires ==
    /\ \E t \in timers \cup second.timers :
          /\ Due(t)
          /\ Set(TimerRuns(t, State))
          /\ second' = TimerRuns(t, second)
    /\ UNCHANGED <<noHeadRequestDomains, startUrl, maxChainLength, valid, js, server>>

\* Two getRedirectChain calls with their own url arguments, against one
\* server of fixed behaviour; no caller changes the set.
InitTwo ==
    /\ noHeadRequestDomains = SeedDomains
    /\ startUrl \in StartUrls
    /\ maxChainLength \in 0..MaxChainArg
    /\ pc = "idle"
    /\ url = startUrl
    /\ chain = <<>>
    /\ result = Pending
    /\ probes = <<>>
    /\ requests = <<>>
    /\ timers = {}
    /\ valid = NotAsked
    /\ js = State
    /\ second \in { [State EXCEPT !.call = 2, !.start = u, !.url = u] : u \in StartUrls }
    /\ server \in Servers

NextTwo ==
    \/ TwoCall
    \/ TwoHeadSettles
    \/ TwoGetSettles
    \/ TwoTimerFires

SpecTwo == InitTwo /\ [][NextTwo]_vars

\* The call of state s before it is made.
Fresh(s) ==
    [call |-> s.call, start |-> s.start, pc |-> "idle", url |-> s.start,
     chain |-> <<>>, result |-> Pending, probes |-> <<>>, requests |-> <<>>,
     timers |-> {}]

RECURSIVE RunAlone(_)

\* The call of state s run on its own to its return against the server of
\* the run: each request settles as the server has it, and a HEAD request
\* the server never answers is aborted by the timer of its probe.
RunAlone(s) ==
    CASE s.pc = "idle" -> RunAlone(LoopHead(s, s.start))
      [] s.pc = "head" ->
            RunAlone(IF HeadOutcome(s.url) = "hangs"
                     THEN TimerRuns(Timer(s, Len(s.probes)), s)
                     ELSE HeadSettles(s))
      [] s.pc = "get" -> RunAlone(GetSettles(s))
      [] OTHER -> s

\* The calls of the whole public surface, for the url arguments and the
\* contents of the set that the lookup distinguishes.
InitLookup ==
    /\ noHeadRequestDomains \in LookupTables
    /\ startUrl \in LookupUrls
    /\ maxChainLength \in 0..LookupChainArg
    /\ pc = "idle"
    /\ url = startUrl
    /\ chain = <<>>
    /\ result = Pending
    /\ probes = <<>>
    /\ requests = <<>>
    /\ timers = {}
    /\ valid = NotAsked
    /\ js = State
    /\ second = [State EXCEPT !.call = 2]
    /\ server = PromptServer

NextLookup ==
    \/ Call
    \/ HeadResponds
    \/ HeadThrows
    \/ TimerFires
    \/ GetResponds
    \/ GetThrows
    \/ AddDomain
    \/ DeleteDomain
    \/ IsValidURL

SpecLookup == InitLookup /\ [][NextLookup]_vars

---------------------------------------------------------------------------
(* Properties *)

Done == pc = "done"

\* The requests probe i issued, in order.
RequestsOf(i) == SelectSeq(requests, LAMBDA r : r.probe = i)

ProbeIds == 1..Len(probes)

\* Probe i obtained a response whose status is outside 200-299 and that
\* carries no Location header.
NonSuccessWithoutLocation(i) ==
    /\ probes[i].response.defined
    /\ probes[i].response.status \notin 200..299
    /\ ~probes[i].response.location.has

\* C1: when the probe of any hop obtains a non-success response without a
\* Location header, getRedirectChain returns null, never a chain.
C1_NonSuccessGivesNull ==
    (Done /\ \E i \in ProbeIds : NonSuccessWithoutLocation(i)) => result = Null

\* C2: when the GET request of any hop throws, getRedirectChain returns
\* null, never the chain built so far.
C2_GetThrowGivesNull ==
    (Done /\ \E i \in ProbeIds : probes[i].get = "threw") => result = Null

\* Probe i was answered with a 3xx response whose Location resolves to the
\* URL that was probed.
RedirectsToItself(i) ==
    /\ probes[i].response.defined
    /\ probes[i].response.status \in 300..399
    /\ probes[i].response.location.has
    /\ ResolveLocation(probes[i].response.location.val, probes[i].url)
          = ParseSuccess(probes[i].url)

\* C3: for maxChainLength >= 1, when every probed URL answers with a
\* redirect back to itself, getRedirectChain returns a chain of exactly
\* maxChainLength elements.
C3_SelfRedirectFillsChain ==
    (/\ Done
     /\ maxChainLength >= 1
     /\ probes # <<>>
     /\ \A i \in ProbeIds : RedirectsToItself(i))
        => (result.tag = "chain" /\ Len(result.chain) = maxChainLength)

\* C4, as claimed: whenever getRedirectChain returns a chain, its first
\* element is the input URL, for every maxChainLength.
C4_FirstElementAnyMax ==
    (Done /\ result.tag = "chain")
        => (Len(result.chain) >= 1 /\ result.chain[1] = startUrl)

\* C4, amended: for maxChainLength >= 1, whenever getRedirectChain returns
\* a chain, its first element is the input URL.
C4_FirstElement ==
    (Done /\ result.tag = "chain" /\ maxChainLength >= 1)
        => (Len(result.chain) >= 1 /\ result.chain[1] = startUrl)

\* A returned chain of two URLs that starts with the input URL and goes on
\* with another one.
C4_Witness ==
    /\ Done
    /\ result.tag = "chain"
    /\ Len(result.chain) = 2
    /\ result.chain[1] = startUrl
    /\ result.chain[2] # startUrl

\* C5: the chain under construction and every returned chain have at most
\* maxChainLength elements.
C5_LengthBound ==
    /\ Len(chain) <= maxChainLength
    /\ result.tag = "chain" => Len(result.chain) <= maxChainLength

\* A chain cut at maxChainLength = 2: the probe of its last element
\* returned one more redirect target.
C5_Witness ==
    /\ Done
    /\ maxChainLength = 2
    /\ result.tag = "chain"
    /\ Len(result.chain) = 2
    /\ probes[2].returned
    /\ probes[2].value.has

\* C6: a probe of a URL whose hostname is in noHeadRequestDomains when
\* getLocationHeader is called issues no HEAD request; a single GET is all
\* it issues.
C6_ListedHostnameSkipsHead ==
    \A i \in ProbeIds :
        probes[i].listed =>
            /\ \A k \in 1..Len(requests) :
                  requests[k].probe = i => requests[k].method # "HEAD"
            /\ RequestsOf(i) = <<[method |-> "GET", url |-> probes[i].url, probe |-> i]>>

\* A probe of example.com that returned after the caller had added
\* example.com to the set, and a HEAD probe of example.com before that.
C6_Witness ==
    \E i, j \in ProbeIds :
        /\ probes[i].listed
        /\ probes[i].returned
        /\ probes[i].url.host = "example.com"
        /\ ~probes[j].listed
        /\ probes[j].url.host = "example.com"

\* The HEAD request of probe i was answered with 405 Method Not Allowed.
HeadRejected(i) ==
    /\ probes[i].head = "response"
    /\ probes[i].response.status = 405

\* C7, as claimed: whenever the HEAD request is rejected by the server, is
\* aborted by the timer or throws, the GET request for the same URL is
\* issued.
C7_FallbackAfterAnyHeadFailure ==
    \A i \in ProbeIds :
        (probes[i].head \in {"threw", "aborted"} \/ HeadRejected(i))
            => \E k \in 1..Len(requests) :
                  requests[k] = [method |-> "GET", url |-> probes[i].url, probe |-> i]

\* What getLocationHeader returns for the outcome of its GET request.
ValueOfGet(p) ==
    IF p.get = "response" /\ p.response.status \in 200..299
    THEN p.response.location
    ELSE NoHeader

\* C7, amended: whenever the HEAD request is aborted by the timer or
\* throws, the GET request for the same URL is issued right after it; the
\* call stays open until that GET settles and what the probe returns is
\* decided by the GET alone.
C7_FallbackAfterHeadThrow ==
    \A i \in ProbeIds :
        probes[i].head \in {"threw", "aborted"} =>
            /\ RequestsOf(i) = <<[method |-> "HEAD", url |-> probes[i].url, probe |-> i],
                                 [method |-> "GET", url |-> probes[i].url, probe |-> i]>>
            /\ probes[i].get # "none"
            /\ probes[i].get = "pending" => (pc = "get" /\ result = Pending /\ i = Len(probes))
            /\ probes[i].returned =>
                  (probes[i].get \in {"response", "threw"}
                   /\ probes[i].value = ValueOfGet(probes[i]))

\* A HEAD request aborted by the timer, then a GET that brought a Location
\* value, which the chain followed.
C7_Witness ==
    \E i \in ProbeIds :
        /\ probes[i].head = "aborted"
        /\ probes[i].get = "response"
        /\ probes[i].returned
        /\ probes[i].value.has
        /\ Len(chain) > i

\* C8: no abort timer is pending once the getLocationHeader call that
\* started it has returned.
C8_NoTimerAfterReturn ==
    \A t \in timers : ~probes[t.probe].returned

\* C9: for maxChainLength >= 1, when the probe of the input URL obtains a
\* successful response without a Location header, getRedirectChain returns
\* exactly <<url>>.
C9_NoRedirectGivesOneElement ==
    (/\ Done
     /\ maxChainLength >= 1
     /\ probes # <<>>
     /\ probes[1].response.defined
     /\ probes[1].response.status \in 200..299
     /\ ~probes[1].response.location.has)
        => result = Chain(<<startUrl>>)

\* The input URL answered 200 without Location to the GET fallback, with
\* room for two elements in the chain.
C9_Witness ==
    /\ Done
    /\ maxChainLength = 2
    /\ probes[1].get = "response"
    /\ probes[1].response.status = 200
    /\ ~probes[1].response.location.has
    /\ result = Chain(<<startUrl>>)

\* The chain went on from element i with a Location value that starts
\* with "/".
SlashHop(i) ==
    /\ i < Len(chain)
    /\ probes[i].returned
    /\ probes[i].value.has
    /\ StartsWithSlash(probes[i].value.val)

\* C10, as claimed: for every Location value that starts with "/", the
\* next URL has the scheme and host of the current URL and the Location
\* value as its path.
C10_SlashKeepsHostAnyValue ==
    \A i \in ProbeIds :
        SlashHop(i) =>
            /\ chain[i + 1].scheme = chain[i].scheme
            /\ chain[i + 1].host = chain[i].host
            /\ SerializePath(chain[i + 1].path) = probes[i].value.val

\* The value holds only "/" and plain path text.
PlainPath(s) == \A k \in 1..Len(s) : s[k] \notin {"\\", ":", ".."}

\* C10, amended: for every Location value that starts with one "/" that no
\* "/" or "\" follows, the next URL has the scheme and host of the current
\* URL, and its path is the path the URL parser reads from the value: the
\* value itself when it holds plain segments only.
C10_SlashKeepsHost ==
    \A i \in ProbeIds :
        (SlashHop(i) /\ LeadingSlashes(probes[i].value.val) = 1) =>
            /\ chain[i + 1].scheme = chain[i].scheme
            /\ chain[i + 1].host = chain[i].host
            /\ chain[i + 1].path = ParsePath(probes[i].value.val)
            /\ PlainPath(probes[i].value.val) =>
                  SerializePath(chain[i + 1].path) = probes[i].value.val

\* https://example.com/a/b answered with Location /c: the chain goes on
\* with https://example.com/c.
C10_Witness ==
    /\ Len(chain) >= 2
    /\ chain[1] = ExampleAB
    /\ probes[1].returned
    /\ probes[1].value = Header(<<"/", "c">>)
    /\ chain[2] = [scheme |-> "https", host |-> "example.com", path |-> <<"c">>]

\* The Location value is neither "/"-led nor an absolute URL.
Malformed(s) == ~StartsWithSlash(s) /\ ~ParseAbsolute(s).ok

\* C11: when a probe returns a Location value that does not start with "/"
\* and does not parse as an absolute URL, getRedirectChain returns null at
\* once: no further request is issued and no chain is returned.
C11_MalformedLocationGivesNull ==
    \A i \in ProbeIds :
        (probes[i].returned /\ probes[i].value.has /\ Malformed(probes[i].value.val))
            => /\ Done
               /\ result = Null
               /\ i = Len(probes)
               /\ requests[Len(requests)].probe = i

\* The second hop answered with Location c: null is returned although two
\* URLs are in the chain.
C11_Witness ==
    /\ Done
    /\ Len(probes) = 2
    /\ probes[2].value = Header(<<"c">>)
    /\ Len(chain) = 2
    /\ result = Null

Methods(i) == [k \in 1..Len(RequestsOf(i)) |-> RequestsOf(i)[k].method]

\* C13: every getLocationHeader call issues at most two requests, at most
\* one HEAD and at most one GET, the GET only after the HEAD attempt ended
\* without a response (skipped, threw or aborted), never after a response.
C13_RequestBudget ==
    \A i \in ProbeIds :
        /\ Methods(i) \in {<<"HEAD">>, <<"GET">>, <<"HEAD", "GET">>}
        /\ Methods(i) = <<"GET">> <=> probes[i].head = "none"
        /\ Methods(i) = <<"HEAD", "GET">> <=> probes[i].head \in {"threw", "aborted"}
        /\ Methods(i) = <<"HEAD">> <=> probes[i].head \in {"pending", "response"}
        /\ \A k \in 1..Len(RequestsOf(i)) : RequestsOf(i)[k].url = probes[i].url

\* A probe answered on its HEAD request and a later one that needed both
\* requests.
C13_Witness ==
    /\ Len(probes) = 2
    /\ Methods(1) = <<"HEAD">>
    /\ probes[1].head = "response"
    /\ Methods(2) = <<"HEAD", "GET">>
    /\ probes[2].get = "response"

\* C14: in every chain, element i is the URL read from the Location value
\* that the probe of element i - 1 returned: resolved against element
\* i - 1 when the value starts with "/", parsed on its own otherwise.
C14_ChainAdjacency ==
    /\ Len(chain) <= Len(probes)
    /\ \A i \in 1..Len(chain) : probes[i].url = chain[i]
    /\ \A i \in 2..Len(chain) :
          LET v == probes[i - 1].value
          IN  /\ probes[i - 1].returned
              /\ v.has
              /\ StartsWithSlash(v.val) =>
                    ParseRelative(v.val, chain[i - 1]) = ParseSuccess(chain[i])
              /\ ~StartsWithSlash(v.val) =>
                    ParseAbsolute(v.val) = ParseSuccess(chain[i])
    /\ result.tag = "chain" => result.chain = chain

\* A returned chain of two URLs whose second one comes from an absolute
\* Location value on another host.
C14_Witness ==
    /\ Done
    /\ result.tag = "chain"
    /\ Len(result.chain) = 2
    /\ probes[1].value = Header(<<"https", ":", "/", "/", "MEGA.NZ", "/", "x">>)
    /\ result.chain[1] = ExampleAB
    /\ result.chain[2] = [scheme |-> "https", host |-> "mega.nz", path |-> <<"x">>]

\* Probe i returned a Location value that gives a next URL.
ReturnedTarget(i) ==
    /\ probes[i].returned
    /\ probes[i].value.has
    /\ ResolveLocation(probes[i].value.val, probes[i].url).ok

\* C15: when the probe of element number maxChainLength returns one more
\* redirect target, getRedirectChain returns the chain of maxChainLength
\* elements as a success and does not append that target.
C15_SilentTruncation ==
    (/\ maxChainLength >= 1
     /\ Len(probes) >= maxChainLength
     /\ ReturnedTarget(maxChainLength))
        => /\ Done
           /\ result = Chain(chain)
           /\ Len(chain) = maxChainLength
           /\ Len(probes) = maxChainLength
           /\ \A i \in 1..maxChainLength : chain[i] = probes[i].url

\* Two hops, each with a redirect target; the second target, another URL
\* than the two of the chain, is dropped.
C15_Witness ==
    /\ Done
    /\ maxChainLength = 2
    /\ ReturnedTarget(1)
    /\ ReturnedTarget(2)
    /\ result = Chain(chain)
    /\ Len(chain) = 2
    /\ ResolveLocation(probes[2].value.val, probes[2].url).url \notin {chain[1], chain[2]}

\* The requests that have been issued and have not settled.
InFlight ==
    { <<i, "HEAD">> : i \in { j \in ProbeIds : probes[j].head = "pending" } }
        \cup { <<i, "GET">> : i \in { j \in ProbeIds : probes[j].get = "pending" } }

\* C17: at most one request is in flight at any time, and the requests of
\* hop i + 1 are issued only after the probe of hop i has returned and its
\* Location value has been resolved.
C17_SequentialProbing ==
    /\ Cardinality(InFlight) <= 1
    /\ \A f \in InFlight : f[1] = Len(probes)
    /\ \A i \in ProbeIds :
          i < Len(probes) =>
              /\ probes[i].returned
              /\ ReturnedTarget(i)
              /\ probes[i + 1].url = ResolveLocation(probes[i].value.val, probes[i].url).url
    /\ \A k \in 1..Len(requests) :
          /\ k > 1 => requests[k - 1].probe <= requests[k].probe
          /\ requests[k].probe < Len(probes) => probes[requests[k].probe].returned

\* The GET request of the second hop is in flight; the first hop took both
\* requests and is over.
C17_Witness ==
    /\ Len(probes) = 2
    /\ InFlight = {<<2, "GET">>}
    /\ Len(requests) = 4
    /\ probes[1].returned

\* C16: provided every GET request settles, getRedirectChain returns,
\* after at most maxChainLength probes; a HEAD request in flight always
\* has its abort timer pending, so it cannot block the call.
C16_Terminates ==
    /\ [](Len(probes) <= maxChainLength)
    /\ [](pc = "head" => Timer(State, Len(probes)) \in timers)
    /\ <>Done

\* A call that returned after two probes, one of them with a HEAD request
\* that the timer aborted.
C16_Witness ==
    /\ Done
    /\ maxChainLength = 2
    /\ Len(probes) = 2
    /\ \E i \in ProbeIds : probes[i].head = "aborted"

\* C18: a probe of a URL whose hostname is not a member of the set, spelled
\* exactly so, starts with the HEAD request; a member of which the hostname
\* is a subdomain, or from which it differs in letter case only, does not
\* count.
C18_ExactMatchLookup ==
    \A i \in ProbeIds :
        ~probes[i].listed =>
            /\ probes[i].tryHeadRequest
            /\ probes[i].head # "none"
            /\ RequestsOf(i) # <<>>
            /\ RequestsOf(i)[1] = [method |-> "HEAD", url |-> probes[i].url, probe |-> i]

\* www.mega.nz is probed with a HEAD request while the set holds mega.nz,
\* of which it is a subdomain, and WWW.MEGA.NZ, which is the same name in
\* upper case.
C18_Witness ==
    /\ Len(probes) = 1
    /\ probes[1].url.host = "www.mega.nz"
    /\ {"mega.nz", "WWW.MEGA.NZ"} \subseteq noHeadRequestDomains
    /\ ToLowerCase("WWW.MEGA.NZ") = probes[1].url.host
    /\ RequestsOf(1)[1].method = "HEAD"

\* A step of getRedirectChain, getLocationHeader or isValidURL: any step
\* that changes what they hold.
ModuleStep ==
    <<pc, url, chain, result, probes, requests, timers, valid>>'
        # <<pc, url, chain, result, probes, requests, timers, valid>>

\* C19: no step of getRedirectChain, getLocationHeader or isValidURL
\* changes the content of noHeadRequestDomains; only a caller's add or
\* delete does.
C19_TableOnlyRead ==
    [][ModuleStep => noHeadRequestDomains' = noHeadRequestDomains]_vars

\* A call that returned after a HEAD request that rejected, with an
\* isValidURL call made, and the set as it was when the call started.
C19_Witness ==
    /\ Done
    /\ valid.asked
    /\ \E i \in ProbeIds : probes[i].head = "threw" /\ probes[i].url.host = "www.mega.nz"
    /\ noHeadRequestDomains = SeedDomains \cup {"WWW.MEGA.NZ"}

\* C12: src/index.js and src/src/index.ts do the same: at every step of the
\* same call against the same server they stand at the same place, have
\* issued the same requests, have had the same value from each
\* getLocationHeader call and have returned the same result.
C12_BuildsAgree ==
    /\ js.pc = pc
    /\ js.url = url
    /\ js.chain = chain
    /\ js.result = result
    /\ js.requests = requests
    /\ Len(js.probes) = Len(probes)
    /\ \A i \in ProbeIds :
          /\ js.probes[i].returned = probes[i].returned
          /\ js.probes[i].value = probes[i].value

IsPrefix(a, b) == Len(a) <= Len(b) /\ SubSeq(b, 1, Len(a)) = a

\* Call state s has issued the requests it issues when run alone, and has
\* returned what it returns when run alone.
AloneAgrees(s) ==
    LET alone == RunAlone(Fresh(s))
    IN  /\ IsPrefix(s.requests, alone.requests)
        /\ s.pc = "done" =>
              /\ s.result = alone.result
              /\ s.chain = alone.chain
              /\ s.requests = alone.requests

\* Every HEAD request of call state s that was aborted was one the server
\* never answers, aborted by the timer of its own probe.
OwnDeadlineOnly(s) ==
    \A i \in 1..Len(s.probes) :
        s.probes[i].head = "aborted" =>
            /\ Timer(s, i) \notin s.timers
            /\ HeadOutcome(s.probes[i].url) = "hangs"

\* C20: of two interleaved calls, each issues the requests and returns the
\* result that it does alone against the same server; a timer aborts only
\* the HEAD request of the probe that set it, so no HEAD request that the
\* server answers is aborted, whatever timers are left over.
C20_Isolation ==
    \A c \in 1..2 : AloneAgrees(Calls[c]) /\ OwnDeadlineOnly(Calls[c])

\* Both calls have returned a chain after two probes each, the first of
\* them with an aborted HEAD request and then one that was answered, and
\* every timer has run, the late ones as well.
C20_Witness ==
    /\ Done /\ second.pc = "done"
    /\ timers = {} /\ second.timers = {}
    /\ Len(probes) = 2 /\ Len(second.probes) = 2
    /\ probes[1].head = "aborted" /\ probes[2].head = "response"
    /\ \E i \in 1..2 : second.probes[i].head = "response"
    /\ result = Chain(chain) /\ second.result = Chain(second.chain)

====
